---- MODULE Spec2Model ----
(***************************************************************************)
(* Verification model of the nth number-phrase engine (src/nth).           *)
(*                                                                         *)
(* Python strings are modelled as TLA+ strings (character by character:    *)
(* spaces, hyphens and letter case are kept).  Python integers are         *)
(* arbitrary-precision; a magnitude is modelled as the sequence of its     *)
(* base-1000 digits ("limbs"), least significant first, without leading    *)
(* zero limbs, so << >> is 0 and <<0, 1>> is 1000.                         *)
(***************************************************************************)
EXTENDS Integers, Sequences, FiniteSets, TLC

VARIABLES
    fpc,        \* formatter pipeline position: "idle", "start", "formatted", "parsed", "raised"
    num,        \* the integer handed to the formatter (limbs)
    cardinal,   \* int_to_cardinal(num)
    ordinal,    \* int_to_ordinal(num)
    suffix,     \* _ordinal_suffix(num)
    reparsed,   \* list(_parse_number_parts(_collect_number_parts(cardinal)))
    decCard,    \* decimalize(cardinal)
    decOrd,     \* decimalize(ordinal)
    pc,         \* _parse_number_parts position: "idle", "unit", "ordinal", "end", "done"
    parts,      \* the units being parsed
    idx,        \* index of the current unit in parts
    total,      \* accumulator n (None or a magnitude)
    stack,      \* pending simple values
    kind,       \* running _PartsKind
    emitted,    \* results yielded so far
    params,     \* [strict_periods, strict_hundreds, ordinal_bounds]
    kpc,        \* token pipeline position: "idle", "start", "recognized", "repaired"
    token,      \* the string handed to the decimal-ordinal functions
    isDecOrd,   \* strict |-> is_decimal_ordinal(token, strict)
    strictMatch,\* DECIMAL_ORDINAL_STRICT_P.fullmatch(token) is not None
    components, \* the patterns p whose \d*p full-matches token
    fixed,      \* fix_decimal_ordinal(token)
    repaired,   \* strict |-> digit_ordinalize(token, strict)
    isDigOrd,   \* strict |-> is_digit_ordinal(token, strict)
    tpc,        \* text pipeline position: "idle", "start", "scanned", "decimalized",
                \* then "detected" or "redecimalized"
    text,       \* the input text
    dparams,    \* the DecimalizeParams
    numSpans,   \* list(_iter_number_spans(text, dparams.take_and))
    out,        \* decimalize(text, dparams)
    again,      \* decimalize(out, dparams)
    contains,   \* strict |-> contains_decimal_ordinal(text, strict)
    npc,        \* Number pipeline position: "idle", "start", "constructed", "added", "done"
    numArgs,    \* the arguments n, ordinal, word, period of a constructor call
    numOther,   \* the other operand of an addition: a Number or a plain int
    numSelf,    \* Number(n, ordinal, word, period)
    numUnit,    \* _Number(n, period, ordinal)
    numSum,     \* numSelf + numOther
    numRSum,    \* numOther + numSelf
    lpc,        \* lookup construction position: "idle", "start", "made", "reversed"
    lparams,    \* the params of the make_lookups calls, one list per partition
    lmapping,   \* the mapping handed to _reverse_mapping, as (key, value) items
    n_to_t,     \* the first dict of each make_lookups call
    t_to_n,     \* the second dict of each make_lookups call
    lreversed,  \* _reverse_mapping(lmapping)
    lraised,    \* whether table construction raised
    cpc,        \* per call: "idle", "start", "unit", "ordinal", "end", "done"
    cwords,     \* per call: the words of its span
    cparts,     \* per call: the units collected from the words
    cidx,       \* per call: index of the current unit
    ctotal,     \* per call: accumulator n
    cstack,     \* per call: pending simple values
    ckind,      \* per call: running _PartsKind
    cemitted,   \* per call: results yielded so far
    tables      \* the module-level lookup tables all calls read

fmtVars == <<fpc, num, cardinal, ordinal, suffix, reparsed, decCard, decOrd>>
parseVars == <<pc, parts, idx, total, stack, kind, emitted, params>>
tokVars == <<kpc, token, isDecOrd, strictMatch, components, fixed, repaired, isDigOrd>>
textVars == <<tpc, text, dparams, numSpans, out, again, contains>>
numVars == <<npc, numArgs, numOther, numSelf, numUnit, numSum, numRSum>>
lookupVars == <<lpc, lparams, lmapping, n_to_t, t_to_n, lreversed, lraised>>
concVars == <<cpc, cwords, cparts, cidx, ctotal, cstack, ckind, cemitted, tables>>
vars == <<fpc, num, cardinal, ordinal, suffix, reparsed, decCard, decOrd,
          pc, parts, idx, total, stack, kind, emitted, params,
          kpc, token, isDecOrd, strictMatch, components, fixed, repaired, isDigOrd,
          tpc, text, dparams, numSpans, out, again, contains,
          npc, numArgs, numOther, numSelf, numUnit, numSum, numRSum,
          lpc, lparams, lmapping, n_to_t, t_to_n, lreversed, lraised,
          cpc, cwords, cparts, cidx, ctotal, cstack, ckind, cemitted, tables>>

----------------------------------------------------------------------------
(* Bounds of the model                                                     *)

\* highest base-1000 period index of a formatter input
MaxIndex == 7
\* longest unit sequence handed to the phrase parser
MaxParts == 3
\* largest integer whose digits end a decimal-ordinal token
MaxNumber == 99
\* most whitespace-separated tokens of an input text
MaxTokens == 3
\* largest absolute value of an integer handed to Number
MaxValue == 3
\* longest params list of the first make_lookups call
MaxEntries == 2
\* most words in the span of one of the concurrent calls
MaxCallWords == 2

----------------------------------------------------------------------------
(* Python built-ins                                                        *)

None == <<-1>>
KeyError == "<KeyError>"
AssertionError == "<AssertionError>"

LowerLetters == "abcdefghijklmnopqrstuvwxyz"
UpperLetters == "ABCDEFGHIJKLMNOPQRSTUVWXYZ"
Digits == "0123456789"

CharAt(s, i) == SubSeq(s, i, i)

IndexIn(c, alphabet) ==
    IF \E i \in 1..Len(alphabet) : CharAt(alphabet, i) = c
    THEN CHOOSE i \in 1..Len(alphabet) : CharAt(alphabet, i) = c
    ELSE 0

upperChar(c) ==
    LET i == IndexIn(c, LowerLetters) IN IF i = 0 THEN c ELSE CharAt(UpperLetters, i)

RECURSIVE upper(_)
upper(s) ==
    IF Len(s) = 0 THEN ""
    ELSE IF Len(s) = 1 THEN upperChar(s)
    ELSE LET h == Len(s) \div 2
         IN  upper(SubSeq(s, 1, h)) \o upper(SubSeq(s, h + 1, Len(s)))

lowerChar(c) ==
    LET i == IndexIn(c, UpperLetters) IN IF i = 0 THEN c ELSE CharAt(LowerLetters, i)

RECURSIVE lower(_)
lower(s) ==
    IF Len(s) = 0 THEN ""
    ELSE IF Len(s) = 1 THEN lowerChar(s)
    ELSE LET h == Len(s) \div 2
         IN  lower(SubSeq(s, 1, h)) \o lower(SubSeq(s, h + 1, Len(s)))

isdigit(c) == IndexIn(c, Digits) # 0

endswith(s, t) == Len(s) >= Len(t) /\ SubSeq(s, Len(s) - Len(t) + 1, Len(s)) = t

\* " ".join(ws) for a sequence of strings
RECURSIVE join(_, _)
join(sep, ws) ==
    IF ws = <<>> THEN ""
    ELSE IF Len(ws) = 1 THEN ws[1]
    ELSE ws[1] \o sep \o join(sep, Tail(ws))

reversed(seq) == [i \in 1..Len(seq) |-> seq[Len(seq) + 1 - i]]

RECURSIVE sum(_)
sum(seq) == IF seq = <<>> THEN 0 ELSE Head(seq) + sum(Tail(seq))

max(a, b) == IF a >= b THEN a ELSE b

----------------------------------------------------------------------------
(* Arbitrary-precision integers                                            *)

Base == 1000

RECURSIVE Normalize(_)
Normalize(n) ==
    IF n = <<>> THEN <<>>
    ELSE IF n[Len(n)] = 0 THEN Normalize(SubSeq(n, 1, Len(n) - 1))
    ELSE n

\* n + f * 1000^e for a magnitude n and small non-negative integers f, e
RECURSIVE BigAdd(_, _, _)
BigAdd(n, f, e) ==
    IF f = 0 THEN n
    ELSE IF e > 0
    THEN <<(IF n = <<>> THEN 0 ELSE Head(n))>>
         \o BigAdd(IF n = <<>> THEN <<>> ELSE Tail(n), f, e - 1)
    ELSE LET v == (IF n = <<>> THEN 0 ELSE Head(n)) + f
         IN  <<v % Base>> \o BigAdd(IF n = <<>> THEN <<>> ELSE Tail(n), v \div Base, 0)

BigFromInt(k) == BigAdd(<<>>, k, 0)

\* n % m for m dividing 1000
BigMod(n, m) == IF n = <<>> THEN 0 ELSE Head(n) % m

digitChar(d) == CharAt(Digits, d + 1)

RECURSIVE strInt(_)
strInt(k) == IF k < 10 THEN digitChar(k) ELSE strInt(k \div 10) \o digitChar(k % 10)

pad3(k) == digitChar(k \div 100) \o digitChar((k \div 10) % 10) \o digitChar(k % 10)

\* str(n)
RECURSIVE str(_)
str(n) ==
    IF n = <<>> THEN "0"
    ELSE IF Len(n) = 1 THEN strInt(n[1])
    ELSE str(Tail(n)) \o pad3(Head(n))

----------------------------------------------------------------------------
(* Lookup tables (src/nth/lookups.py)                                      *)

INT_TO_CARDINAL ==
    (1 :> "ONE") @@ (2 :> "TWO") @@ (3 :> "THREE") @@ (4 :> "FOUR") @@
    (5 :> "FIVE") @@ (6 :> "SIX") @@ (7 :> "SEVEN") @@ (8 :> "EIGHT") @@
    (9 :> "NINE") @@ (10 :> "TEN") @@ (11 :> "ELEVEN") @@ (12 :> "TWELVE") @@
    (13 :> "THIRTEEN") @@ (14 :> "FOURTEEN") @@ (15 :> "FIFTEEN") @@
    (16 :> "SIXTEEN") @@ (17 :> "SEVENTEEN") @@ (18 :> "EIGHTEEN") @@
    (19 :> "NINETEEN") @@ (20 :> "TWENTY") @@ (30 :> "THIRTY") @@
    (40 :> "FORTY") @@ (50 :> "FIFTY") @@ (60 :> "SIXTY") @@
    (70 :> "SEVENTY") @@ (80 :> "EIGHTY") @@ (90 :> "NINETY")

INT_TO_ORDINAL ==
    (1 :> "FIRST") @@ (2 :> "SECOND") @@ (3 :> "THIRD") @@ (4 :> "FOURTH") @@
    (5 :> "FIFTH") @@ (6 :> "SIXTH") @@ (7 :> "SEVENTH") @@ (8 :> "EIGHTH") @@
    (9 :> "NINTH") @@ (10 :> "TENTH") @@ (11 :> "ELEVENTH") @@
    (12 :> "TWELFTH") @@ (13 :> "THIRTEENTH") @@ (14 :> "FOURTEENTH") @@
    (15 :> "FIFTEENTH") @@ (16 :> "SIXTEENTH") @@ (17 :> "SEVENTEENTH") @@
    (18 :> "EIGHTEENTH") @@ (19 :> "NINETEENTH") @@ (20 :> "TWENTIETH") @@
    (30 :> "THIRTIETH") @@ (40 :> "FORTIETH") @@ (50 :> "FIFTIETH") @@
    (60 :> "SIXTIETH") @@ (70 :> "SEVENTIETH") @@ (80 :> "EIGHTIETH") @@
    (90 :> "NINETIETH")

INT_TO_PERIOD ==
    (1 :> "THOUSAND") @@ (2 :> "MILLION") @@ (3 :> "BILLION") @@
    (4 :> "TRILLION") @@ (5 :> "QUADRILLION") @@ (6 :> "QUINTILLION")

\* {b: a for a, b in mapping.items()}: a later item overwrites an earlier one
_reverse_mapping(mapping) ==
    [b \in {mapping[a] : a \in DOMAIN mapping} |->
        CHOOSE a \in DOMAIN mapping :
            /\ mapping[a] = b
            /\ \A a2 \in DOMAIN mapping : mapping[a2] = b => a2 <= a]

CARDINAL_TO_INT == _reverse_mapping(INT_TO_CARDINAL)
ORDINAL_TO_INT == _reverse_mapping(INT_TO_ORDINAL)
PERIOD_TO_INT == _reverse_mapping(INT_TO_PERIOD)

----------------------------------------------------------------------------
(* Number formatter (src/nth/__init__.py, Period .. int_to_digit_ordinal)  *)

Period(period, digits) == [period |-> period, digits |-> digits]

RECURSIVE _encode_hecto(_, _)
_encode_hecto(n, lookup) ==
    IF ~(n > 0 /\ n < 100) THEN AssertionError
    ELSE IF n \in DOMAIN lookup THEN lookup[n]
    ELSE LET deca == n % 10
             hundreds == INT_TO_CARDINAL[n - deca]
             hecto == _encode_hecto(deca, lookup)
         IN  hundreds \o "-" \o hecto

\* the period-name lookup INT_TO_PERIOD[self.period] raises for an unknown index
PeriodRaises(self) == self.period # 0 /\ self.period \notin DOMAIN INT_TO_PERIOD

\* to_cardinal, dropping the period name after a bare hundreds count
to_cardinal_NoPeriodAfterHundred(self) ==
    IF PeriodRaises(self) THEN KeyError
    ELSE
    LET p == IF self.period = 0 THEN "" ELSE " " \o INT_TO_PERIOD[self.period]
        q == self.digits \div 100
        r == self.digits % 100
    IN  IF q > 0
        THEN IF r > 0
             THEN _encode_hecto(q, INT_TO_CARDINAL) \o " HUNDRED "
                  \o _encode_hecto(r, INT_TO_CARDINAL) \o p
             ELSE _encode_hecto(q, INT_TO_CARDINAL) \o " HUNDRED"
        ELSE _encode_hecto(r, INT_TO_CARDINAL) \o p

to_cardinal(self) ==
    IF PeriodRaises(self) THEN KeyError
    ELSE
    LET p == IF self.period = 0 THEN "" ELSE " " \o INT_TO_PERIOD[self.period]
        q == self.digits \div 100
        r == self.digits % 100
    IN  IF q > 0
        THEN IF r > 0
             THEN _encode_hecto(q, INT_TO_CARDINAL) \o " HUNDRED "
                  \o _encode_hecto(r, INT_TO_CARDINAL) \o p
             ELSE _encode_hecto(q, INT_TO_CARDINAL) \o " HUNDRED" \o p
        ELSE _encode_hecto(r, INT_TO_CARDINAL) \o p

to_ordinal(self) ==
    IF PeriodRaises(self) THEN KeyError
    ELSE
    LET p == IF self.period = 0 THEN "" ELSE " " \o INT_TO_PERIOD[self.period]
        q == self.digits \div 100
        r == self.digits % 100
    IN  IF q > 0
        THEN IF r > 0
             THEN _encode_hecto(q, INT_TO_CARDINAL) \o " HUNDRED "
                  \o _encode_hecto(r, INT_TO_ORDINAL) \o p
             ELSE _encode_hecto(q, INT_TO_CARDINAL) \o " HUNDRED" \o p \o "TH"
        ELSE IF p # ""
        THEN _encode_hecto(r, INT_TO_CARDINAL) \o p \o "TH"
        ELSE _encode_hecto(r, INT_TO_ORDINAL) \o p

\* the periods of n, least significant first, zero periods skipped
RECURSIVE periods_from(_, _)
periods_from(n, period) ==
    IF n = <<>> THEN <<>>
    ELSE LET digits == Head(n)
         IN  (IF digits # 0 THEN <<Period(period, digits)>> ELSE <<>>)
             \o periods_from(Tail(n), period + 1)

periods_from_int(n) == periods_from(n, 0)

\* a raising element makes the whole expression raise
Raises(ws) == \E i \in 1..Len(ws) : ws[i] = KeyError

int_to_cardinal(n) ==
    IF n = <<>> THEN "zero"
    ELSE LET periods == periods_from_int(n)
             ws == [i \in 1..Len(periods) |-> to_cardinal(reversed(periods)[i])]
         IN  IF Raises(ws) THEN KeyError ELSE join(" ", ws)

int_to_ordinal(n) ==
    IF n = <<>> THEN "zeroth"
    ELSE LET all == reversed(periods_from_int(n))
             ordinal_period == all[Len(all)]
             periods == SubSeq(all, 1, Len(all) - 1)
             ws == [i \in 1..Len(periods) |-> to_cardinal(periods[i])]
                   \o <<to_ordinal(ordinal_period)>>
         IN  IF Raises(ws) THEN KeyError ELSE join(" ", ws)

\* _ordinal_suffix without the teens test
_ordinal_suffix_NoTeens(n) ==
    LET d == BigMod(n, 10)
    IN  IF d = 1 THEN "ST"
        ELSE IF d = 2 THEN "ND"
        ELSE IF d = 3 THEN "RD"
        ELSE "TH"

_ordinal_suffix(n) ==
    IF 10 < BigMod(n, 100) /\ BigMod(n, 100) < 20 THEN "TH"
    ELSE LET d == BigMod(n, 10)
         IN  IF d = 1 THEN "ST"
             ELSE IF d = 2 THEN "ND"
             ELSE IF d = 3 THEN "RD"
             ELSE "TH"

int_to_digit_ordinal(n) == str(n) \o _ordinal_suffix(n)

----------------------------------------------------------------------------
(* Word lookup and tokenizing (src/nth/__init__.py, _Number .. _collect)   *)

_Number(n, is_period, is_ordinal) == [n |-> n, period |-> is_period, ordinal |-> is_ordinal]

\* the value None where a _Number is expected
NoNumber == [n |-> -1, period |-> FALSE, ordinal |-> FALSE]
\* the value None where a list of _Number is expected
NoParts == <<NoNumber>>

ZERO == ("ZERO" :> _Number(0, FALSE, FALSE)) @@ ("ZEROTH" :> _Number(0, FALSE, TRUE))

HUNDRED == ("HUNDRED" :> _Number(100, FALSE, FALSE)) @@ ("HUNDREDTH" :> _Number(100, FALSE, TRUE))

_lookup_number(s, take_digits) ==
    LET _s == upper(s)
        isOrdinal == endswith(_s, "TH")
        key == IF isOrdinal THEN SubSeq(_s, 1, Len(_s) - 2) ELSE _s
    IN  IF key \in DOMAIN PERIOD_TO_INT THEN _Number(PERIOD_TO_INT[key], TRUE, isOrdinal)
        ELSE IF _s \in DOMAIN ZERO THEN ZERO[_s]
        ELSE IF _s \in DOMAIN HUNDRED THEN HUNDRED[_s]
        ELSE IF _s \in DOMAIN CARDINAL_TO_INT THEN _Number(CARDINAL_TO_INT[_s], FALSE, FALSE)
        ELSE IF _s \in DOMAIN ORDINAL_TO_INT THEN _Number(ORDINAL_TO_INT[_s], FALSE, TRUE)
        ELSE NoNumber

_is_number(s) == _lookup_number(s, FALSE) # NoNumber

\* \s of the regular expressions, over the characters the model uses
isspace(c) == c \in {" ", "\t", "\n"}

\* end (exclusive, 0-based) of the run of non-space characters starting at 0-based i
RECURSIVE RunEnd(_, _)
RunEnd(s, i) ==
    IF i >= Len(s) \/ isspace(CharAt(s, i + 1)) THEN i ELSE RunEnd(s, i + 1)

\* position of the hyphen at which (?:(\S+)-)?(\S+) splits the run w; 0 if none:
\* the greedy first group ends at the last hyphen that has a character on both sides
HyphenSplit(w) ==
    LET ks == {k \in 2..(Len(w) - 1) : CharAt(w, k) = "-"}
    IN  IF ks = {} THEN 0 ELSE CHOOSE k \in ks : \A k2 \in ks : k2 <= k

\* one match of WORD_P = (?:(\S+)-)?(\S+)|AND over the run s[start:end];
\* groups() with the unmatched group dropped, as filter(None, m.groups()) leaves it
WordMatch(s, start, end) ==
    LET w == SubSeq(s, start + 1, end)
        k == HyphenSplit(w)
    IN  [start |-> start, end |-> end, group |-> w,
         groups |-> IF k = 0 THEN <<w>>
                    ELSE <<SubSeq(w, 1, k - 1), SubSeq(w, k + 1, Len(w))>>]

\* WORD_P.finditer(s) from 0-based position i on
RECURSIVE finditer(_, _)
finditer(s, i) ==
    IF i >= Len(s) THEN <<>>
    ELSE IF isspace(CharAt(s, i + 1)) THEN finditer(s, i + 1)
    ELSE LET e == RunEnd(s, i) IN <<WordMatch(s, i, e)>> \o finditer(s, e)

\* the words _collect_number_parts looks up, in order
RECURSIVE MatchWords(_)
MatchWords(ms) == IF ms = <<>> THEN <<>> ELSE Head(ms).groups \o MatchWords(Tail(ms))

RECURSIVE CollectFrom(_, _, _, _)
CollectFrom(ws, acc, take_and, take_digits) ==
    IF ws = <<>> THEN (IF Len(acc) > 0 THEN acc ELSE NoParts)
    ELSE IF take_and /\ upper(Head(ws)) = "AND"
    THEN CollectFrom(Tail(ws), acc, take_and, take_digits)
    ELSE LET n == _lookup_number(Head(ws), take_digits)
         IN  IF n = NoNumber THEN NoParts
             ELSE CollectFrom(Tail(ws), Append(acc, n), take_and, take_digits)

_collect_number_parts(s, take_and, take_digits) ==
    CollectFrom(MatchWords(finditer(s, 0)), <<>>, take_and, take_digits)

----------------------------------------------------------------------------
(* Phrase parser (src/nth/__init__.py, _PartsKind, _parse_number_parts)    *)

CARDINAL == "CARDINAL"
ORDINAL == "ORDINAL"
CARDINAL_IMPROPER == "CARDINAL_IMPROPER"
ORDINAL_IMPROPER == "ORDINAL_IMPROPER"
_PartsKind == {CARDINAL, ORDINAL, CARDINAL_IMPROPER, ORDINAL_IMPROPER}

KindCardinal(k) == k \in {CARDINAL, CARDINAL_IMPROPER}
KindOrdinal(k) == k \in {ORDINAL, ORDINAL_IMPROPER}
KindImproper(k) == k \in {CARDINAL_IMPROPER, ORDINAL_IMPROPER}

to_improper(k) ==
    IF k \in {CARDINAL, CARDINAL_IMPROPER} THEN CARDINAL_IMPROPER ELSE ORDINAL_IMPROPER

\* n or 0
OrZero(n) == IF n = None THEN <<>> ELSE n

\* the accumulator of one _parse_number_parts call
Accumulator(n, k, st) == [n |-> n, kind |-> k, stack |-> st]

\* PeriodUnit, forgetting stack.clear()
PeriodUnit_KeepStack(acc, part, strict_periods) ==
    LET f == sum(acc.stack)
    IN  [n |-> BigAdd(OrZero(acc.n), max(1, f), part.n),
         kind |-> IF f = 0 /\ ~strict_periods THEN to_improper(acc.kind) ELSE acc.kind,
         stack |-> acc.stack]

\* lines 489-498: a period unit
PeriodUnit(acc, part, strict_periods) ==
    LET f == sum(acc.stack)
    IN  [n |-> BigAdd(OrZero(acc.n), max(1, f), part.n),
         kind |-> IF f = 0 /\ ~strict_periods THEN to_improper(acc.kind) ELSE acc.kind,
         stack |-> <<>>]

\* HundredUnit, forgetting stack.clear()
HundredUnit_KeepStack(acc, part, strict_hundreds) ==
    LET f == sum(acc.stack)
    IN  IF f # 0 \/ ~strict_hundreds
        THEN [acc EXCEPT !.stack = Append(acc.stack, max(1, f) * part.n)]
        ELSE acc

\* lines 499-503: a hundred unit
HundredUnit(acc, part, strict_hundreds) ==
    LET f == sum(acc.stack)
    IN  IF f # 0 \/ ~strict_hundreds
        THEN [acc EXCEPT !.stack = <<max(1, f) * part.n>>]
        ELSE acc

\* lines 504-506: any other unit
SimpleUnit(acc, part) ==
    [acc EXCEPT !.stack = Append(acc.stack, part.n), !.n = OrZero(acc.n)]

ConsumeUnit(acc, part, strict_periods, strict_hundreds) ==
    IF part.period THEN PeriodUnit(acc, part, strict_periods)
    ELSE IF part.n = 100 THEN HundredUnit(acc, part, strict_hundreds)
    ELSE SimpleUnit(acc, part)

\* lines 508-512: does this unit end the number in progress
AtOrdinalBound(acc, part, ordinal_bounds) ==
    part.ordinal /\ ordinal_bounds /\ acc.n # None

Result(n, k) == [n |-> n, kind |-> k]

\* what line 509 yields
BoundYield(acc, part, ordinal_bounds) ==
    IF AtOrdinalBound(acc, part, ordinal_bounds)
    THEN <<Result(BigAdd(OrZero(acc.n), sum(acc.stack), 0), ORDINAL)>>
    ELSE <<>>

\* lines 508-517 without the reset of lines 510-512
OrdinalUnit_NoReset(acc, part, ordinal_bounds) ==
    IF part.ordinal
    THEN [acc EXCEPT !.kind = IF KindOrdinal(acc.kind) THEN ORDINAL_IMPROPER ELSE ORDINAL]
    ELSE acc

\* lines 508-517: the accumulator after the ordinal handling of a unit
OrdinalUnit(acc, part, ordinal_bounds) ==
    LET a == IF AtOrdinalBound(acc, part, ordinal_bounds)
             THEN Accumulator(None, CARDINAL, <<>>)
             ELSE acc
    IN  IF part.ordinal
        THEN [a EXCEPT !.kind = IF KindOrdinal(a.kind) THEN ORDINAL_IMPROPER ELSE ORDINAL]
        ELSE a

\* lines 518-519: what is yielded after the last unit
FinalYield(acc) ==
    IF acc.n # None \/ Len(acc.stack) > 0
    THEN <<Result(BigAdd(OrZero(acc.n), sum(acc.stack), 0), acc.kind)>>
    ELSE <<>>

RECURSIVE ParseFrom(_, _, _, _, _)
ParseFrom(ps, acc, strict_periods, strict_hundreds, ordinal_bounds) ==
    IF ps = <<>> THEN FinalYield(acc)
    ELSE LET a == ConsumeUnit(acc, Head(ps), strict_periods, strict_hundreds)
         IN  BoundYield(a, Head(ps), ordinal_bounds)
             \o ParseFrom(Tail(ps), OrdinalUnit(a, Head(ps), ordinal_bounds),
                          strict_periods, strict_hundreds, ordinal_bounds)

\* list(_parse_number_parts(parts, ...))
_parse_number_parts(ps, strict_periods, strict_hundreds, ordinal_bounds) ==
    ParseFrom(ps, Accumulator(None, CARDINAL, <<>>),
              strict_periods, strict_hundreds, ordinal_bounds)

----------------------------------------------------------------------------
(* Decimal ordinals and decimalize (src/nth/__init__.py)                   *)

RECURSIVE intSmall(_)
intSmall(ds) ==
    IF ds = "" THEN 0
    ELSE intSmall(SubSeq(ds, 1, Len(ds) - 1)) * 10 + (IndexIn(CharAt(ds, Len(ds)), Digits) - 1)

RECURSIVE LimbsOf(_)
LimbsOf(ds) ==
    IF Len(ds) <= 3 THEN <<intSmall(ds)>>
    ELSE <<intSmall(SubSeq(ds, Len(ds) - 2, Len(ds)))>> \o LimbsOf(SubSeq(ds, 1, Len(ds) - 3))

\* int(ds) for a string of decimal digits
int(ds) == Normalize(LimbsOf(ds))

isdecimal(s) == Len(s) > 0 /\ \A i \in 1..Len(s) : isdigit(CharAt(s, i))

\* DECIMAL_ORDINAL_NONSTRICT_P.fullmatch(s), \b(\d+)(ST|ND|RD|TH)\b ignoring case
NonstrictFullmatch(s) ==
    /\ Len(s) >= 3
    /\ isdecimal(SubSeq(s, 1, Len(s) - 2))
    /\ upper(SubSeq(s, Len(s) - 1, Len(s))) \in {"ST", "ND", "RD", "TH"}

fix_decimal_ordinal(s) ==
    IF NonstrictFullmatch(s)
    THEN LET n == int(SubSeq(s, 1, Len(s) - 2))
         IN  str(n) \o _ordinal_suffix(n)
    ELSE s

\* s.split(): the maximal runs of non-space characters
RECURSIVE split(_, _)
split(s, i) ==
    IF i >= Len(s) THEN <<>>
    ELSE IF isspace(CharAt(s, i + 1)) THEN split(s, i + 1)
    ELSE LET e == RunEnd(s, i) IN <<SubSeq(s, i + 1, e)>> \o split(s, e)

\* the groups of the matches of re.finditer(r"\S+", s)
NonSpaceRuns(s) == split(s, 0)

\* str.isupper(): some cased character and no lower-case one
isupper(s) ==
    /\ \E i \in 1..Len(s) : IndexIn(CharAt(s, i), UpperLetters) > 0
    /\ \A i \in 1..Len(s) : IndexIn(CharAt(s, i), LowerLetters) = 0

\* lines 192-207; m.groups() are the digits and the suffix as typed
is_decimal_ordinal(s, strict) ==
    IF NonstrictFullmatch(s)
    THEN IF ~strict THEN TRUE
         ELSE LET n == SubSeq(s, 1, Len(s) - 2)
                  sfx == SubSeq(s, Len(s) - 1, Len(s))
              IN  _ordinal_suffix(int(n)) = sfx
    ELSE FALSE

\* lines 210-217: any() over the matches of \S+
contains_decimal_ordinal_FirstWord(s, strict) ==
    LET ws == NonSpaceRuns(s)
    IN  Len(ws) > 0 /\ is_decimal_ordinal(ws[1], strict)

contains_decimal_ordinal(s, strict) ==
    LET ws == NonSpaceRuns(s)
    IN  \E i \in 1..Len(ws) : is_decimal_ordinal(ws[i], strict)

\* the lookbehind (?<!1) at offset k of s
NotAfterOne(s, k) == ~(k > 0 /\ CharAt(s, k) = "1")

\* lines 221-225: each pattern matched, ignoring case, against s[k:] to the end of s
DECIMAL_ORDINAL_ONES_NoLookbehind(s, k) ==
    Len(s) - k = 3 /\ upper(SubSeq(s, k + 1, Len(s))) = "1ST"

DECIMAL_ORDINAL_ONES(s, k) ==
    NotAfterOne(s, k) /\ Len(s) - k = 3 /\ upper(SubSeq(s, k + 1, Len(s))) = "1ST"

DECIMAL_ORDINAL_TWOS(s, k) ==
    NotAfterOne(s, k) /\ Len(s) - k = 3 /\ upper(SubSeq(s, k + 1, Len(s))) = "2ND"

DECIMAL_ORDINAL_THREES(s, k) ==
    NotAfterOne(s, k) /\ Len(s) - k = 3 /\ upper(SubSeq(s, k + 1, Len(s))) = "3RD"

DECIMAL_ORDINAL_TEENS(s, k) ==
    /\ Len(s) - k = 4
    /\ CharAt(s, k + 1) = "1"
    /\ IndexIn(CharAt(s, k + 2), "123456789") > 0
    /\ upper(SubSeq(s, k + 3, Len(s))) = "TH"

DECIMAL_ORDINAL_OTHERWISE(s, k) ==
    \/ /\ Len(s) - k = 4
       /\ SubSeq(s, k + 1, k + 2) = "10"
       /\ upper(SubSeq(s, k + 3, Len(s))) = "TH"
    \/ /\ NotAfterOne(s, k)
       /\ Len(s) - k = 3
       /\ IndexIn(CharAt(s, k + 1), "0456789") > 0
       /\ upper(SubSeq(s, k + 2, Len(s))) = "TH"

\* lines 226-232
DECIMAL_ORDINAL_PATTERNS == <<"ONES", "TWOS", "THREES", "TEENS", "OTHERWISE">>

PatternAt(p, s, k) ==
    IF p = "ONES" THEN DECIMAL_ORDINAL_ONES(s, k)
    ELSE IF p = "TWOS" THEN DECIMAL_ORDINAL_TWOS(s, k)
    ELSE IF p = "THREES" THEN DECIMAL_ORDINAL_THREES(s, k)
    ELSE IF p = "TEENS" THEN DECIMAL_ORDINAL_TEENS(s, k)
    ELSE DECIMAL_ORDINAL_OTHERWISE(s, k)

\* re.compile(rf"\d*{p}", re.IGNORECASE).fullmatch(s): \d* takes some k leading digits
PrefixedFullmatch(p, s) ==
    \E k \in 0..Len(s) :
        /\ \A i \in 1..k : isdigit(CharAt(s, i))
        /\ PatternAt(p, s, k)

\* lines 233-236: DECIMAL_ORDINAL_STRICT_P.fullmatch(s)
DECIMAL_ORDINAL_STRICT_P(s) ==
    \E k \in 0..Len(s) :
        /\ \A i \in 1..k : isdigit(CharAt(s, i))
        /\ \E j \in 1..Len(DECIMAL_ORDINAL_PATTERNS) :
              PatternAt(DECIMAL_ORDINAL_PATTERNS[j], s, k)

\* the None a str-returning function may return
NoneStr == "<None>"

\* lines 265-290; the pattern (\d+)(ST|ND|RD|TH)? is matched case-sensitively
try_digit_ordinal_to_word(s, strict) ==
    LET hasSuffix == /\ Len(s) >= 3
                     /\ isdecimal(SubSeq(s, 1, Len(s) - 2))
                     /\ SubSeq(s, Len(s) - 1, Len(s)) \in {"ST", "ND", "RD", "TH"}
    IN  IF ~(isdecimal(s) \/ hasSuffix) THEN NoneStr
        ELSE LET ds == IF hasSuffix THEN SubSeq(s, 1, Len(s) - 2) ELSE s
                 _suffix == IF hasSuffix THEN SubSeq(s, Len(s) - 1, Len(s)) ELSE ""
                 n == int(ds)
                 sfx == _ordinal_suffix(n)
                 res == str(n) \o sfx
             IN  IF _suffix # "" /\ strict /\ sfx # upper(_suffix) THEN NoneStr
                 ELSE IF _suffix # "" /\ ~isupper(_suffix) THEN lower(res)
                 ELSE res

\* lines 293-298
is_digit_ordinal(s, strict) == try_digit_ordinal_to_word(s, strict) = upper(s)

\* lines 304-308
digit_ordinalize(s, strict) ==
    LET _s == try_digit_ordinal_to_word(s, strict)
    IN  IF _s # NoneStr THEN _s ELSE s

\* DecimalizeParams() with its default field values
DefaultParams ==
    [correct_suffixes |-> TRUE, strict_periods |-> TRUE, strict_hundreds |-> TRUE,
     take_and |-> TRUE, ignore_and |-> FALSE, take_digits |-> TRUE,
     ordinal_bounds |-> TRUE, cardinal |-> TRUE, cardinal_improper |-> TRUE,
     ordinal |-> TRUE, ordinal_improper |-> TRUE]

\* lines 560-570 with the ordinal flag never taken
take_kind_RejectOrdinal(self, k) ==
    IF k = CARDINAL THEN self.cardinal
    ELSE IF k = ORDINAL THEN FALSE
    ELSE IF k = CARDINAL_IMPROPER THEN self.cardinal_improper
    ELSE self.ordinal_improper

take_kind(self, k) ==
    IF k = CARDINAL THEN self.cardinal
    ELSE IF k = ORDINAL THEN self.ordinal
    ELSE IF k = CARDINAL_IMPROPER THEN self.cardinal_improper
    ELSE self.ordinal_improper

_is_number_match(m, take_and) ==
    LET w == upper(m.group)
    IN  IF take_and /\ w = "AND" THEN TRUE
        ELSE \A i \in 1..Len(m.groups) : _is_number(m.groups[i])

\* the spans (0-based, end exclusive) _iter_number_spans yields over the matches ms,
\* with the matches collected since the last span in run
RECURSIVE SpansFrom(_, _, _)
SpansFrom(ms, run, take_and) ==
    IF ms = <<>>
    THEN (IF Len(run) > 0 THEN <<<<run[1].start, run[Len(run)].end>>>> ELSE <<>>)
    ELSE IF _is_number_match(Head(ms), take_and)
    THEN SpansFrom(Tail(ms), Append(run, Head(ms)), take_and)
    ELSE IF Len(run) > 0
    THEN <<<<run[1].start, run[Len(run)].end>>>> \o SpansFrom(Tail(ms), <<>>, take_and)
    ELSE SpansFrom(Tail(ms), <<>>, take_and)

_iter_number_spans(s, take_and) == SpansFrom(finditer(s, 0), <<>>, take_and)

\* the texts _decimalize_sub yields for the span text s
_decimalize_sub(s, ps) ==
    LET units == _collect_number_parts(s, ps.take_and, ps.take_digits)
    IN  IF units = NoParts THEN <<>>
        ELSE LET rs == _parse_number_parts(units, ps.strict_periods, ps.strict_hundreds,
                                           ps.ordinal_bounds)
             IN  [i \in 1..Len(rs) |->
                    IF take_kind(ps, rs[i].kind)
                    THEN IF KindCardinal(rs[i].kind) THEN str(rs[i].n)
                         ELSE str(rs[i].n) \o _ordinal_suffix(rs[i].n)
                    ELSE s]

\* "".join(_intersperse(ts, fill))
_intersperse(ts, fill) == join(fill, ts)

\* result_parts joined, from span number j on, with i the end of the previous span
RECURSIVE DecimalizeFrom(_, _, _, _, _)
DecimalizeFrom(s, spans, j, i, ps) ==
    IF j > Len(spans) THEN SubSeq(s, i + 1, Len(s))
    ELSE LET span_l == spans[j][1]
             span_r == spans[j][2]
             w == SubSeq(s, span_l + 1, span_r)
         IN  SubSeq(s, i + 1, span_l)
             \o _intersperse(_decimalize_sub(w, ps), " ")
             \o DecimalizeFrom(s, spans, j + 1, span_r, ps)

decimalize(s, ps) ==
    LET r == DecimalizeFrom(s, _iter_number_spans(s, ps.take_and), 1, 0, ps)
        ws == split(r, 0)
    IN  IF ~ps.correct_suffixes THEN r
        ELSE join(" ", [i \in 1..Len(ws) |-> fix_decimal_ordinal(ws[i])])

----------------------------------------------------------------------------
(* Number (src/nth/number.py)                                              *)

ValueError == "<ValueError>"

\* lines 18-29: the fields __init__ stores
Number(n, is_ordinal, is_word, is_period) ==
    [n |-> n, ordinal |-> is_ordinal, word |-> is_word, period |-> is_period]

\* what evaluating an expression gives: a value, or an exception raised
Returned(v) == [raised |-> "", value |-> v]
Raised(e) == [raised |-> e, value |-> Number(0, FALSE, FALSE, FALSE)]

\* an operand of +: a Number, or a plain int
NumberOperand(v) ==
    [isNumber |-> TRUE, n |-> v.n, ordinal |-> v.ordinal, word |-> v.word, period |-> v.period]
IntOperand(k) ==
    [isNumber |-> FALSE, n |-> k, ordinal |-> FALSE, word |-> FALSE, period |-> FALSE]

\* lines 90-94
_op_validate(other) == IF other.isNumber THEN ~other.period ELSE TRUE

\* lines 96-105; in line 102 the conditional expression takes the whole sum as its
\* first branch: (self._n + other._n) if isinstance(other, Number) else other
__add__(self, other) ==
    IF self.period THEN Raised(ValueError)
    ELSE IF ~_op_validate(other) THEN Raised(ValueError)
    ELSE Returned(Number(IF other.isNumber THEN self.n + other.n ELSE other.n,
                         self.ordinal \/ (other.isNumber /\ other.ordinal),
                         self.word, FALSE))

\* lines 107-109
__radd__(self, other) == __add__(self, other)

\* other + self: Number.__add__ of other when it is a Number, and for an int,
\* whose own __add__ does not know Number, Number.__radd__ of self
ReflectedSum(other, self) ==
    IF other.isNumber THEN __add__(other, NumberOperand(self))
    ELSE __radd__(self, other)

----------------------------------------------------------------------------
(* Lookup construction (src/nth/lookup.py)                                 *)

\* lookup.py imports Integer from number.py, which defines the class under the
\* name Number; its constructor takes the same n, ordinal, word, period
Integer(n, is_ordinal, is_word, is_period) == Number(n, is_ordinal, is_word, is_period)

\* dict() and d[k] = v: an existing key keeps its place and takes the new value
EmptyDict == [k \in {} |-> k]
SetItem(d, k, v) == (k :> v) @@ d

\* lines 63-76: the loop of make_lookups over the params ps, from the dicts so far
RECURSIVE MakeFrom(_, _, _, _)
MakeFrom(ps, is_ordinal, is_period, dicts) ==
    IF ps = <<>> THEN dicts
    ELSE LET p == Head(ps)
             n == Integer(p.n, is_ordinal, FALSE, is_period)
             w == Integer(n, is_ordinal, TRUE, is_period)
         IN  MakeFrom(Tail(ps), is_ordinal, is_period,
                      [n_to_t |-> SetItem(dicts.n_to_t, n, p.t),
                       t_to_n |-> [t \in p.aliases |-> w] @@ SetItem(dicts.t_to_n, p.t, w)])

\* lines 56-77
make_lookups(is_ordinal, is_period, ps) ==
    MakeFrom(ps, is_ordinal, is_period, [n_to_t |-> EmptyDict, t_to_n |-> EmptyDict])

\* the dict whose items, in order, are the elements of the mapping items
DictOf(items) == [k \in DOMAIN items |-> items[k]]

----------------------------------------------------------------------------
(* The phrase parser as a state machine: one _parse_number_parts call      *)

\* the words whose units the parser is run on
ParseWords ==
    {"ZERO", "ONE", "TWENTY", "FIRST", "HUNDRED", "HUNDREDTH",
     "THOUSAND", "THOUSANDTH", "MILLION"}

ParseUnits == {_lookup_number(w, TRUE) : w \in ParseWords}

RECURSIVE SeqsUpTo(_, _)
SeqsUpTo(S, k) ==
    IF k = 0 THEN {<<>>}
    ELSE LET shorter == SeqsUpTo(S, k - 1)
         IN  shorter \cup {Append(q, x) : q \in {r \in shorter : Len(r) = k - 1}, x \in S}

FormatIdle ==
    /\ fpc = "idle"
    /\ num = <<>>
    /\ cardinal = ""
    /\ ordinal = ""
    /\ suffix = ""
    /\ reparsed = <<>>
    /\ decCard = ""
    /\ decOrd = ""

ParseIdle ==
    /\ pc = "idle"
    /\ parts = <<>>
    /\ idx = 0
    /\ total = None
    /\ stack = <<>>
    /\ kind = CARDINAL
    /\ emitted = <<>>
    /\ params = [strict_periods |-> TRUE, strict_hundreds |-> TRUE, ordinal_bounds |-> TRUE]

\* no table has been built
LookupIdle ==
    /\ lpc = "idle"
    /\ lparams = <<<<>>, <<>>>>
    /\ lmapping = <<>>
    /\ n_to_t = <<EmptyDict, EmptyDict>>
    /\ t_to_n = <<EmptyDict, EmptyDict>>
    /\ lreversed = EmptyDict
    /\ lraised = FALSE

\* the calls that run concurrently
Calls == {1, 2}

\* the module-level tables of __init__.py and lookups.py
ModuleTables ==
    [PERIOD_TO_INT |-> PERIOD_TO_INT, ZERO |-> ZERO, HUNDRED |-> HUNDRED,
     CARDINAL_TO_INT |-> CARDINAL_TO_INT, ORDINAL_TO_INT |-> ORDINAL_TO_INT]

ConcIdle ==
    /\ cpc = [c \in Calls |-> "idle"]
    /\ cwords = [c \in Calls |-> <<>>]
    /\ cparts = [c \in Calls |-> <<>>]
    /\ cidx = [c \in Calls |-> 0]
    /\ ctotal = [c \in Calls |-> None]
    /\ cstack = [c \in Calls |-> <<>>]
    /\ ckind = [c \in Calls |-> CARDINAL]
    /\ cemitted = [c \in Calls |-> <<>>]
    /\ tables = ModuleTables

NumberIdle ==
    /\ npc = "idle"
    /\ numArgs = Number(0, FALSE, FALSE, FALSE)
    /\ numOther = IntOperand(0)
    /\ numSelf = Returned(Number(0, FALSE, FALSE, FALSE))
    /\ numUnit = Returned(_Number(0, FALSE, FALSE))
    /\ numSum = Returned(Number(0, FALSE, FALSE, FALSE))
    /\ numRSum = Returned(Number(0, FALSE, FALSE, FALSE))

TokenIdle ==
    /\ kpc = "idle"
    /\ token = ""
    /\ isDecOrd = [strict \in BOOLEAN |-> FALSE]
    /\ strictMatch = FALSE
    /\ components = {}
    /\ fixed = ""
    /\ repaired = [strict \in BOOLEAN |-> ""]
    /\ isDigOrd = [strict \in BOOLEAN |-> FALSE]

TextIdle ==
    /\ tpc = "idle"
    /\ text = ""
    /\ dparams = DefaultParams
    /\ numSpans = <<>>
    /\ out = ""
    /\ again = ""
    /\ contains = [strict \in BOOLEAN |-> FALSE]

Init ==
    /\ FormatIdle
    /\ TokenIdle
    /\ TextIdle
    /\ NumberIdle
    /\ LookupIdle
    /\ ConcIdle
    /\ pc = "unit"
    /\ parts \in SeqsUpTo(ParseUnits, MaxParts) \ {<<>>}
    /\ idx = 1
    /\ total = None
    /\ stack = <<>>
    /\ kind = CARDINAL
    /\ emitted = <<>>
    /\ params \in [strict_periods : BOOLEAN, strict_hundreds : BOOLEAN, ordinal_bounds : BOOLEAN]

acc == Accumulator(total, kind, stack)

SetAccumulator(a) ==
    /\ total' = a.n
    /\ kind' = a.kind
    /\ stack' = a.stack

\* lines 489-498
ConsumePeriod ==
    /\ pc = "unit"
    /\ parts[idx].period
    /\ SetAccumulator(PeriodUnit(acc, parts[idx], params.strict_periods))
    /\ pc' = "ordinal"
    /\ UNCHANGED <<parts, idx, emitted, params, fmtVars, tokVars, textVars,
                   numVars, lookupVars, concVars>>

\* lines 499-503
ConsumeHundred ==
    /\ pc = "unit"
    /\ ~parts[idx].period
    /\ parts[idx].n = 100
    /\ SetAccumulator(HundredUnit(acc, parts[idx], params.strict_hundreds))
    /\ pc' = "ordinal"
    /\ UNCHANGED <<parts, idx, emitted, params, fmtVars, tokVars, textVars,
                   numVars, lookupVars, concVars>>

\* lines 504-506
ConsumeSimple ==
    /\ pc = "unit"
    /\ ~parts[idx].period
    /\ parts[idx].n # 100
    /\ SetAccumulator(SimpleUnit(acc, parts[idx]))
    /\ pc' = "ordinal"
    /\ UNCHANGED <<parts, idx, emitted, params, fmtVars, tokVars, textVars,
                   numVars, lookupVars, concVars>>

\* lines 508-517, then the loop moves to the next unit
OrdinalCheck ==
    /\ pc = "ordinal"
    /\ emitted' = emitted \o BoundYield(acc, parts[idx], params.ordinal_bounds)
    /\ SetAccumulator(OrdinalUnit(acc, parts[idx], params.ordinal_bounds))
    /\ idx' = idx + 1
    /\ pc' = IF idx = Len(parts) THEN "end" ELSE "unit"
    /\ UNCHANGED <<parts, params, fmtVars, tokVars, textVars,
                   numVars, lookupVars, concVars>>

\* lines 518-519
Finish ==
    /\ pc = "end"
    /\ emitted' = emitted \o FinalYield(acc)
    /\ pc' = "done"
    /\ UNCHANGED <<parts, idx, total, stack, kind, params, fmtVars, tokVars, textVars,
                   numVars, lookupVars, concVars>>

Next ==
    \/ ConsumePeriod
    \/ ConsumeHundred
    \/ ConsumeSimple
    \/ OrdinalCheck
    \/ Finish

Spec == Init /\ [][Next]_vars

----------------------------------------------------------------------------
(* The formatter and the round trip through the parser, as functions of    *)
(* the integer num                                                         *)

\* period digit values placed at the period indexes 0..MaxIndex
LimbSample == {1, 12, 21, 40, 100, 123, 305, 999}

Zeros(e) == [i \in 1..e |-> 0]

\* 965_302_219_560_189_405_377 (src/tests/test_nth.py:69), its digits repeated above 1000^7
DenseLimb(i) == <<377, 405, 189, 560, 219, 302, 965>>[((i - 1) % 7) + 1]

FormatInputs ==
    {<<>>}
    \cup {<<d>> : d \in 1..(Base - 1)}
    \cup {Zeros(e) \o <<d>> : e \in 1..MaxIndex, d \in LimbSample}
    \cup {Zeros(e1) \o <<lo>> \o Zeros(e2 - e1 - 1) \o <<hi>> :
            e1 \in 0..MaxIndex, e2 \in 1..MaxIndex, lo \in LimbSample, hi \in LimbSample}
    \cup {[i \in 1..k |-> DenseLimb(i)] : k \in 2..(MaxIndex + 1)}

InitFormat ==
    /\ ParseIdle
    /\ TokenIdle
    /\ TextIdle
    /\ NumberIdle
    /\ LookupIdle
    /\ ConcIdle
    /\ fpc = "start"
    /\ num \in {n \in FormatInputs : Len(n) <= MaxIndex + 1}
    /\ cardinal = ""
    /\ ordinal = ""
    /\ suffix = ""
    /\ reparsed = <<>>
    /\ decCard = ""
    /\ decOrd = ""

\* int_to_cardinal(num), int_to_ordinal(num), _ordinal_suffix(num)
Format ==
    /\ fpc = "start"
    /\ cardinal' = int_to_cardinal(num)
    /\ ordinal' = int_to_ordinal(num)
    /\ suffix' = _ordinal_suffix(num)
    /\ fpc' = IF KeyError \in {cardinal', ordinal'} THEN "raised" ELSE "formatted"
    /\ UNCHANGED <<num, reparsed, decCard, decOrd, parseVars, tokVars, textVars,
                   numVars, lookupVars, concVars>>

\* the words are parsed back and decimalized with the default parameters
Reparse ==
    /\ fpc = "formatted"
    /\ reparsed' = LET units == _collect_number_parts(cardinal, DefaultParams.take_and,
                                                      DefaultParams.take_digits)
                   IN  IF units = NoParts THEN <<>>
                       ELSE _parse_number_parts(units, DefaultParams.strict_periods,
                                                DefaultParams.strict_hundreds,
                                                DefaultParams.ordinal_bounds)
    /\ decCard' = decimalize(cardinal, DefaultParams)
    /\ decOrd' = decimalize(ordinal, DefaultParams)
    /\ fpc' = "parsed"
    /\ UNCHANGED <<num, cardinal, ordinal, suffix, parseVars, tokVars, textVars,
                   numVars, lookupVars, concVars>>

NextFormat ==
    \/ Format
    \/ Reparse

SpecFormat == InitFormat /\ [][NextFormat]_vars

----------------------------------------------------------------------------
(* The decimal-ordinal functions, as functions of one token                *)

\* digits put before the number: none, leading zeros, a leading 1 or 2
TokenPrefixes == {"", "0", "00", "1", "2", "10"}

\* the four suffixes in upper, lower and mixed case
SuffixSpellings ==
    {"ST", "ND", "RD", "TH", "st", "nd", "rd", "th", "St", "Nd", "Rd", "Th"}

DigitTexts == {p \o strInt(n) : p \in TokenPrefixes, n \in 0..MaxNumber}

\* tokens that are not digits followed by a suffix
OtherTokens == {"", "x", "3", "03", "11", "ST", "th", "3X", "3RDX", "x3RD", "3 RD", "3-RD"}

TokenInputs == {d \o x : d \in DigitTexts, x \in SuffixSpellings} \cup OtherTokens

InitToken ==
    /\ FormatIdle
    /\ ParseIdle
    /\ TextIdle
    /\ NumberIdle
    /\ LookupIdle
    /\ ConcIdle
    /\ kpc = "start"
    /\ token \in TokenInputs
    /\ isDecOrd = [strict \in BOOLEAN |-> FALSE]
    /\ strictMatch = FALSE
    /\ components = {}
    /\ fixed = ""
    /\ repaired = [strict \in BOOLEAN |-> ""]
    /\ isDigOrd = [strict \in BOOLEAN |-> FALSE]

\* is_decimal_ordinal(token, strict), is_digit_ordinal(token, strict) and the
\* strict patterns on token
Recognize ==
    /\ kpc = "start"
    /\ isDecOrd' = [strict \in BOOLEAN |-> is_decimal_ordinal(token, strict)]
    /\ strictMatch' = DECIMAL_ORDINAL_STRICT_P(token)
    /\ components' = {DECIMAL_ORDINAL_PATTERNS[j] : j \in
                        {i \in 1..Len(DECIMAL_ORDINAL_PATTERNS) :
                            PrefixedFullmatch(DECIMAL_ORDINAL_PATTERNS[i], token)}}
    /\ isDigOrd' = [strict \in BOOLEAN |-> is_digit_ordinal(token, strict)]
    /\ kpc' = "recognized"
    /\ UNCHANGED <<token, fixed, repaired, fmtVars, parseVars, textVars,
                   numVars, lookupVars, concVars>>

\* fix_decimal_ordinal(token) and digit_ordinalize(token, strict)
Repair ==
    /\ kpc = "recognized"
    /\ fixed' = fix_decimal_ordinal(token)
    /\ repaired' = [strict \in BOOLEAN |-> digit_ordinalize(token, strict)]
    /\ kpc' = "repaired"
    /\ UNCHANGED <<token, isDecOrd, strictMatch, components, isDigOrd, fmtVars, parseVars, textVars,
                   numVars, lookupVars, concVars>>

NextToken ==
    \/ Recognize
    \/ Repair

SpecToken == InitToken /\ [][NextToken]_vars

----------------------------------------------------------------------------
(* Span detection, decimalize and contains_decimal_ordinal, as functions   *)
(* of one input text                                                       *)

TextWords == {"one", "hundred", "first", "and", "3rd", "x", "two,", "7"}

\* the whitespace between two tokens
TextSeparators == {" ", "  "}

TextInputs == {join(sep, ws) : sep \in TextSeparators, ws \in SeqsUpTo(TextWords, MaxTokens)}

ParamInputs ==
    {[DefaultParams EXCEPT !.take_and = a, !.correct_suffixes = c, !.ordinal = o] :
        a \in BOOLEAN, c \in BOOLEAN, o \in BOOLEAN}

InitText ==
    /\ FormatIdle
    /\ ParseIdle
    /\ TokenIdle
    /\ NumberIdle
    /\ LookupIdle
    /\ ConcIdle
    /\ tpc = "start"
    /\ text \in TextInputs
    /\ dparams \in ParamInputs
    /\ numSpans = <<>>
    /\ out = ""
    /\ again = ""
    /\ contains = [strict \in BOOLEAN |-> FALSE]

\* list(_iter_number_spans(text, take_and))
Scan ==
    /\ tpc = "start"
    /\ numSpans' = _iter_number_spans(text, dparams.take_and)
    /\ tpc' = "scanned"
    /\ UNCHANGED <<text, dparams, out, again, contains, fmtVars, parseVars, tokVars,
                   numVars, lookupVars, concVars>>

\* decimalize(text, dparams)
Decimalize ==
    /\ tpc = "scanned"
    /\ out' = decimalize(text, dparams)
    /\ tpc' = "decimalized"
    /\ UNCHANGED <<text, dparams, numSpans, again, contains, fmtVars, parseVars, tokVars,
                   numVars, lookupVars, concVars>>

\* contains_decimal_ordinal(text, strict)
Detect ==
    /\ tpc = "decimalized"
    /\ contains' = [strict \in BOOLEAN |-> contains_decimal_ordinal(text, strict)]
    /\ tpc' = "detected"
    /\ UNCHANGED <<text, dparams, numSpans, out, again, fmtVars, parseVars, tokVars,
                   numVars, lookupVars, concVars>>

\* decimalize applied to its own output
Redecimalize ==
    /\ tpc = "decimalized"
    /\ again' = decimalize(out, dparams)
    /\ tpc' = "redecimalized"
    /\ UNCHANGED <<text, dparams, numSpans, out, contains, fmtVars, parseVars, tokVars,
                   numVars, lookupVars, concVars>>

NextText ==
    \/ Scan
    \/ Decimalize
    \/ Detect
    \/ Redecimalize

SpecText == InitText /\ [][NextText]_vars

----------------------------------------------------------------------------
(* Number construction and addition, as functions of the arguments         *)

NumberValues == (0 - MaxValue)..MaxValue

\* the other operand: a plain int, or a decimal Number
OperandInputs ==
    {IntOperand(k) : k \in NumberValues}
    \cup {NumberOperand(Number(k, o, FALSE, q)) : k \in 0..MaxValue, o \in BOOLEAN, q \in BOOLEAN}

InitNumber ==
    /\ FormatIdle
    /\ ParseIdle
    /\ TokenIdle
    /\ TextIdle
    /\ LookupIdle
    /\ ConcIdle
    /\ npc = "start"
    /\ numArgs \in {Number(k, o, w, q) : k \in NumberValues, o \in BOOLEAN,
                                          w \in BOOLEAN, q \in BOOLEAN}
    /\ numOther \in OperandInputs
    /\ numSelf = Returned(Number(0, FALSE, FALSE, FALSE))
    /\ numUnit = Returned(_Number(0, FALSE, FALSE))
    /\ numSum = Returned(Number(0, FALSE, FALSE, FALSE))
    /\ numRSum = Returned(Number(0, FALSE, FALSE, FALSE))

\* Number(n, ordinal, word, period) and _Number(n, period, ordinal): neither
\* constructor has a statement that raises
Construct ==
    /\ npc = "start"
    /\ numSelf' = Returned(Number(numArgs.n, numArgs.ordinal, numArgs.word, numArgs.period))
    /\ numUnit' = Returned(_Number(numArgs.n, numArgs.period, numArgs.ordinal))
    /\ npc' = "constructed"
    /\ UNCHANGED <<numArgs, numOther, numSum, numRSum,
                   fmtVars, parseVars, tokVars, textVars, lookupVars, concVars>>

\* numSelf + numOther
Add ==
    /\ npc = "constructed"
    /\ numSum' = __add__(numSelf.value, numOther)
    /\ npc' = "added"
    /\ UNCHANGED <<numArgs, numOther, numSelf, numUnit, numRSum,
                   fmtVars, parseVars, tokVars, textVars, lookupVars, concVars>>

\* numOther + numSelf
ReflectedAdd ==
    /\ npc = "added"
    /\ numRSum' = ReflectedSum(numOther, numSelf.value)
    /\ npc' = "done"
    /\ UNCHANGED <<numArgs, numOther, numSelf, numUnit, numSum,
                   fmtVars, parseVars, tokVars, textVars, lookupVars, concVars>>

NextNumber ==
    \/ Construct
    \/ Add
    \/ ReflectedAdd

SpecNumber == InitNumber /\ [][NextNumber]_vars

----------------------------------------------------------------------------
(* Construction of the lookup tables, as a function of the entries         *)

LookupWords == {"ONE", "TWO"}

\* a param (n, t) or (n, t, aliases)
LookupEntries == {[n |-> k, t |-> t, aliases |-> al] :
                    k \in 1..2, t \in LookupWords, al \in {{}, {"TWO"}}}

InitLookup ==
    /\ FormatIdle
    /\ ParseIdle
    /\ TokenIdle
    /\ TextIdle
    /\ NumberIdle
    /\ ConcIdle
    /\ lpc = "start"
    /\ lparams \in SeqsUpTo(LookupEntries, MaxEntries) \X SeqsUpTo(LookupEntries, 1)
    /\ lmapping \in [1..2 -> LookupWords]
    /\ n_to_t = <<EmptyDict, EmptyDict>>
    /\ t_to_n = <<EmptyDict, EmptyDict>>
    /\ lreversed = EmptyDict
    /\ lraised = FALSE

\* the cardinal and the ordinal partition are built by one make_lookups call
\* each (lines 80-229); make_lookups has no statement that raises
MakeLookups ==
    /\ lpc = "start"
    /\ LET c == make_lookups(FALSE, FALSE, lparams[1])
           o == make_lookups(TRUE, FALSE, lparams[2])
       IN  /\ n_to_t' = <<c.n_to_t, o.n_to_t>>
           /\ t_to_n' = <<c.t_to_n, o.t_to_n>>
    /\ lraised' = FALSE
    /\ lpc' = "made"
    /\ UNCHANGED <<lparams, lmapping, lreversed,
                   fmtVars, parseVars, tokVars, textVars, numVars, concVars>>

\* _reverse_mapping(lmapping) of lookups.py, which has no statement that raises
ReverseMapping ==
    /\ lpc = "made"
    /\ lreversed' = _reverse_mapping(DictOf(lmapping))
    /\ lpc' = "reversed"
    /\ UNCHANGED <<lparams, lmapping, n_to_t, t_to_n, lraised,
                   fmtVars, parseVars, tokVars, textVars, numVars, concVars>>

NextLookup ==
    \/ MakeLookups
    \/ ReverseMapping

SpecLookup == InitLookup /\ [][NextLookup]_vars

----------------------------------------------------------------------------
(* Concurrent conversions: each call collects its units, then drives its   *)
(* own _parse_number_parts generator; the steps of the calls interleave    *)

\* _lookup_number reading the module-level tables tbl
LookupIn(tbl, s, take_digits) ==
    LET _s == upper(s)
        isOrd == endswith(_s, "TH")
        key == IF isOrd THEN SubSeq(_s, 1, Len(_s) - 2) ELSE _s
    IN  IF key \in DOMAIN tbl.PERIOD_TO_INT THEN _Number(tbl.PERIOD_TO_INT[key], TRUE, isOrd)
        ELSE IF _s \in DOMAIN tbl.ZERO THEN tbl.ZERO[_s]
        ELSE IF _s \in DOMAIN tbl.HUNDRED THEN tbl.HUNDRED[_s]
        ELSE IF _s \in DOMAIN tbl.CARDINAL_TO_INT THEN _Number(tbl.CARDINAL_TO_INT[_s], FALSE, FALSE)
        ELSE IF _s \in DOMAIN tbl.ORDINAL_TO_INT THEN _Number(tbl.ORDINAL_TO_INT[_s], FALSE, TRUE)
        ELSE NoNumber

\* _collect_number_parts over the words ws, its lookups reading tbl
RECURSIVE CollectIn(_, _, _, _, _)
CollectIn(tbl, ws, units, take_and, take_digits) ==
    IF ws = <<>> THEN (IF Len(units) > 0 THEN units ELSE NoParts)
    ELSE IF take_and /\ upper(Head(ws)) = "AND"
    THEN CollectIn(tbl, Tail(ws), units, take_and, take_digits)
    ELSE LET n == LookupIn(tbl, Head(ws), take_digits)
         IN  IF n = NoNumber THEN NoParts
             ELSE CollectIn(tbl, Tail(ws), Append(units, n), take_and, take_digits)

\* the words of the spans the calls convert
CallWords == {"TWO", "FIRST", "THOUSAND"}

InitConc ==
    /\ FormatIdle
    /\ ParseIdle
    /\ TokenIdle
    /\ TextIdle
    /\ NumberIdle
    /\ LookupIdle
    /\ cpc = [c \in Calls |-> "start"]
    /\ cwords \in [Calls -> SeqsUpTo(CallWords, MaxCallWords) \ {<<>>}]
    /\ cparts = [c \in Calls |-> <<>>]
    /\ cidx = [c \in Calls |-> 0]
    /\ ctotal = [c \in Calls |-> None]
    /\ cstack = [c \in Calls |-> <<>>]
    /\ ckind = [c \in Calls |-> CARDINAL]
    /\ cemitted = [c \in Calls |-> <<>>]
    /\ tables = ModuleTables

\* lines 484-486: n, kind and stack are local variables of the generator of call c
\* (variant: every call uses the variables of call 1)
CallAcc_Shared(c) == Accumulator(ctotal[1], ckind[1], cstack[1])

\* lines 484-486: n, kind and stack are local variables of the generator of call c
CallAcc(c) == Accumulator(ctotal[c], ckind[c], cstack[c])

SetCallAcc(c, a) ==
    /\ ctotal' = [ctotal EXCEPT ![c] = a.n]
    /\ ckind' = [ckind EXCEPT ![c] = a.kind]
    /\ cstack' = [cstack EXCEPT ![c] = a.stack]

\* _decimalize_sub lines 579-583: the units of the span; no units, no results
Collect(c) ==
    /\ cpc[c] = "start"
    /\ LET units == CollectIn(tables, cwords[c], <<>>,
                              DefaultParams.take_and, DefaultParams.take_digits)
       IN  IF units = NoParts
           THEN /\ cpc' = [cpc EXCEPT ![c] = "done"]
                /\ UNCHANGED <<cparts, cidx>>
           ELSE /\ cpc' = [cpc EXCEPT ![c] = "unit"]
                /\ cparts' = [cparts EXCEPT ![c] = units]
                /\ cidx' = [cidx EXCEPT ![c] = 1]
    /\ UNCHANGED <<cwords, ctotal, cstack, ckind, cemitted, tables,
                   fmtVars, parseVars, tokVars, textVars, numVars, lookupVars>>

\* lines 489-506 for the current unit of call c
ConsumeCall(c) ==
    /\ cpc[c] = "unit"
    /\ SetCallAcc(c, ConsumeUnit(CallAcc(c), cparts[c][cidx[c]],
                                 DefaultParams.strict_periods, DefaultParams.strict_hundreds))
    /\ cpc' = [cpc EXCEPT ![c] = "ordinal"]
    /\ UNCHANGED <<cwords, cparts, cidx, cemitted, tables,
                   fmtVars, parseVars, tokVars, textVars, numVars, lookupVars>>

\* lines 508-517 for the current unit of call c, then its loop moves on
OrdinalCall(c) ==
    /\ cpc[c] = "ordinal"
    /\ cemitted' = [cemitted EXCEPT ![c] =
                      @ \o BoundYield(CallAcc(c), cparts[c][cidx[c]], DefaultParams.ordinal_bounds)]
    /\ SetCallAcc(c, OrdinalUnit(CallAcc(c), cparts[c][cidx[c]], DefaultParams.ordinal_bounds))
    /\ cidx' = [cidx EXCEPT ![c] = @ + 1]
    /\ cpc' = [cpc EXCEPT ![c] = IF cidx[c] = Len(cparts[c]) THEN "end" ELSE "unit"]
    /\ UNCHANGED <<cwords, cparts, tables,
                   fmtVars, parseVars, tokVars, textVars, numVars, lookupVars>>

\* lines 518-519 for call c
FinishCall(c) ==
    /\ cpc[c] = "end"
    /\ cemitted' = [cemitted EXCEPT ![c] = @ \o FinalYield(CallAcc(c))]
    /\ cpc' = [cpc EXCEPT ![c] = "done"]
    /\ UNCHANGED <<cwords, cparts, cidx, ctotal, cstack, ckind, tables,
                   fmtVars, parseVars, tokVars, textVars, numVars, lookupVars>>

NextConc ==
    \E c \in Calls :
        \/ Collect(c)
        \/ ConsumeCall(c)
        \/ OrdinalCall(c)
        \/ FinishCall(c)

SpecConc == InitConc /\ [][NextConc]_vars

----------------------------------------------------------------------------
(* Properties of the formatter and of the round trip (SpecFormat)          *)

\* 0 <= num < 1000^7: every period index of num has a name in INT_TO_PERIOD
InNamedRange == Len(num) <= Cardinality(DOMAIN INT_TO_PERIOD) + 1

\* C1: cardinal round trip. For every integer 0 <= n < 1000^7 the words of
\* int_to_cardinal(n), collected and parsed with the default strict settings,
\* give exactly one result, of magnitude n and kind CARDINAL, and
\* decimalize(int_to_cardinal(n)) is the decimal string of n.
C1_CardinalRoundTrip ==
    (fpc = "parsed" /\ InNamedRange) =>
        /\ reparsed = <<Result(num, CARDINAL)>>
        /\ decCard = str(num)

\* a number of 19 or more digits with several periods has made the round trip
C1_Witness ==
    /\ fpc = "parsed"
    /\ Len(num) = Cardinality(DOMAIN INT_TO_PERIOD) + 1
    /\ \A i \in 1..Len(num) : num[i] > 100
    /\ reparsed = <<Result(num, CARDINAL)>>
    /\ decCard = str(num)

\* C2: for every integer 0 <= n < 1000^7, decimalize(int_to_ordinal(n)) with the
\* default parameters is the single token made of the decimal digits of n
\* followed by the suffix of the digit-ordinal rule for n.
C2_OrdinalToDecimal ==
    (fpc = "parsed" /\ InNamedRange) => decOrd = str(num) \o suffix

\* C3: _ordinal_suffix returns one of ST, ND, RD, TH for every non-negative
\* integer: TH when n mod 100 is in 11..19, otherwise ST, ND, RD for the last
\* digits 1, 2, 3 and TH for any other last digit.
C3_OrdinalSuffixRule ==
    fpc # "start" =>
        LET low == IF num = <<>> THEN 0 ELSE num[1]
            teens == (low % 100) \in 11..19
            digit == low % 10
        IN  /\ suffix \in {"ST", "ND", "RD", "TH"}
            /\ teens => suffix = "TH"
            /\ (~teens /\ digit = 1) => suffix = "ST"
            /\ (~teens /\ digit = 2) => suffix = "ND"
            /\ (~teens /\ digit = 3) => suffix = "RD"
            /\ (~teens /\ digit \notin {1, 2, 3}) => suffix = "TH"

\* the suffix of a number above 1000 that ends in 12 has been computed
C3_Witness ==
    /\ fpc # "start"
    /\ Len(num) > 1
    /\ num[1] % 100 = 12
    /\ suffix = "TH"

\* the words of a phrase: the maximal runs without a space or a hyphen
RECURSIVE WordsOf(_)
WordsOf(s) ==
    LET seps == {i \in 1..Len(s) : CharAt(s, i) \in {" ", "-"}}
        k == IF seps = {} THEN Len(s) + 1 ELSE CHOOSE i \in seps : \A j \in seps : i <= j
    IN  IF s = "" THEN <<>>
        ELSE (IF k > 1 THEN <<SubSeq(s, 1, k - 1)>> ELSE <<>>)
             \o WordsOf(SubSeq(s, k + 1, Len(s)))

\* the phrase with every hyphen replaced by a space
RECURSIVE Unhyphenated(_)
Unhyphenated(s) ==
    IF Len(s) = 0 THEN ""
    ELSE IF Len(s) = 1 THEN (IF s = "-" THEN " " ELSE s)
    ELSE LET h == Len(s) \div 2
         IN  Unhyphenated(SubSeq(s, 1, h)) \o Unhyphenated(SubSeq(s, h + 1, Len(s)))

\* the ordinal form of a single cardinal word
OrdinalForm(w) ==
    IF w \in DOMAIN CARDINAL_TO_INT THEN INT_TO_ORDINAL[CARDINAL_TO_INT[w]] ELSE w \o "TH"

Formatted == fpc \in {"formatted", "parsed"}

\* C4: for every n >= 1, int_to_ordinal(n) differs from int_to_cardinal(n) only
\* in its last word, which is the ordinal form of the cardinal's last word; every
\* other word stays cardinal, also when the least-significant nonzero period has
\* index >= 1 and both a hundreds count and a nonzero remainder (123000).
C4_OnlyLastWordOrdinal ==
    (Formatted /\ num # <<>>) =>
        LET cw == WordsOf(cardinal)
            ow == WordsOf(ordinal)
        IN  /\ Len(ow) = Len(cw)
            /\ \A i \in 1..(Len(cw) - 1) : ow[i] = cw[i]
            /\ ow[Len(ow)] = OrdinalForm(cw[Len(cw)])

\* the words of a remainder 1..99
RemainderWords(r) ==
    IF r \in DOMAIN INT_TO_CARDINAL THEN <<INT_TO_CARDINAL[r]>>
    ELSE <<INT_TO_CARDINAL[r - (r % 10)], INT_TO_CARDINAL[r % 10]>>

\* the words the claim gives the period with digits d at index e
PeriodWords(d, e) ==
    (IF d \div 100 > 0 THEN <<INT_TO_CARDINAL[d \div 100], "HUNDRED">> ELSE <<>>)
    \o (IF d % 100 > 0 THEN RemainderWords(d % 100) ELSE <<>>)
    \o (IF e > 0 THEN <<INT_TO_PERIOD[e]>> ELSE <<>>)

\* the words of the periods of n from index e down to 0, zero periods skipped
RECURSIVE NumberWords(_, _)
NumberWords(n, e) ==
    IF e < 0 THEN <<>>
    ELSE (IF n[e + 1] # 0 THEN PeriodWords(n[e + 1], e) ELSE <<>>) \o NumberWords(n, e - 1)

\* C5: for 1 <= n < 1000^7, int_to_cardinal(n) is, most-significant period
\* first and joined by single spaces, one phrase per nonzero base-1000 period:
\* the ones-word of q and HUNDRED when q > 0, the words of r when r > 0, the
\* period name when the index is > 0 (d = 100*q + r); zero periods give no words.
C5_CardinalPhrase ==
    (Formatted /\ num # <<>> /\ InNamedRange) =>
        Unhyphenated(cardinal) = join(" ", NumberWords(num, Len(num) - 1))

\* 2050 has been formatted as TWO THOUSAND FIFTY, and a number with a zero
\* period between two nonzero ones has been formatted too
C5_Witness ==
    /\ Formatted
    /\ \/ num = <<50, 2>> /\ cardinal = "TWO THOUSAND FIFTY"
       \/ Len(num) > 2 /\ num[2] = 0 /\ num[1] > 100

\* C6: formatting zero gives exactly "ZERO" (cardinal) and "ZEROTH" (ordinal),
\* upper case like every other word of the formatter.
C6_ZeroWords ==
    (Formatted /\ num = <<>>) => (cardinal = "ZERO" /\ ordinal = "ZEROTH")

\* C7: the word form of a number never contains a hyphen; the tens word and the
\* ones word of 21..99 are joined by a single space.
C7_NoHyphen ==
    Formatted =>
        /\ \A i \in 1..Len(cardinal) : CharAt(cardinal, i) # "-"
        /\ \A i \in 1..Len(ordinal) : CharAt(ordinal, i) # "-"

\* C8: int_to_cardinal and int_to_ordinal return a word phrase for every
\* non-negative integer, whatever the number of base-1000 periods.
C8_FormatterTotal ==
    fpc # "raised" /\ cardinal # KeyError /\ ordinal # KeyError

----------------------------------------------------------------------------
(* Properties of the phrase parser (Spec)                                  *)

AtPeriodUnit == pc = "unit" /\ parts[idx].period
AtHundredUnit == pc = "unit" /\ ~parts[idx].period /\ parts[idx].n = 100

\* C9: when a period unit with exponent e is consumed, total increases by
\* max(1, sum(stack)) * 1000^e and the stack is cleared; the kind is escalated
\* to its improper variant exactly when sum(stack) was 0 and strict-period
\* checking is enabled, and never when strict-period checking is disabled.
C9_PeriodUnit ==
    [][AtPeriodUnit =>
        LET factor == sum(stack)
        IN  /\ total' = BigAdd(OrZero(total), max(1, factor), parts[idx].n)
            /\ stack' = <<>>
            /\ kind' = IF factor = 0 /\ params.strict_periods
                       THEN to_improper(kind) ELSE kind]_vars

C11_OrdinalBounds ==
    [][/\ (pc = "ordinal" /\ params.ordinal_bounds /\ parts[idx].ordinal /\ total # None) =>
            /\ emitted' = Append(emitted, Result(BigAdd(total, sum(stack), 0), ORDINAL))
            /\ total' = None
            /\ stack' = <<>>
       /\ (~params.ordinal_bounds /\ pc # "end") => (emitted = <<>> /\ emitted' = <<>>)
       /\ (~params.ordinal_bounds /\ pc = "end") =>
            /\ emitted = <<>>
            /\ emitted' \in {<<>>, <<Result(BigAdd(OrZero(total), sum(stack), 0), kind)>>}
            /\ (total # None \/ stack # <<>>) => emitted' # <<>>
      ]_vars

\* one unit sequence has yielded two results at two ordinal bounds
C11_Witness ==
    /\ params.ordinal_bounds
    /\ pc = "done"
    /\ Len(emitted) = 2
    /\ \A i \in 1..2 : emitted[i].kind = ORDINAL
    /\ total = None
    /\ stack = <<>>

\* the accumulator after the first k units of parts, and the index of the
\* first unit consumed since the last ordinal bound (lines 487-517)
RECURSIVE AfterUnits(_)
AfterUnits(k) ==
    IF k = 0 THEN [acc |-> Accumulator(None, CARDINAL, <<>>), start |-> 1]
    ELSE LET prev == AfterUnits(k - 1)
             a == ConsumeUnit(prev.acc, parts[k], params.strict_periods, params.strict_hundreds)
         IN  [acc |-> OrdinalUnit(a, parts[k], params.ordinal_bounds),
              start |-> IF AtOrdinalBound(a, parts[k], params.ordinal_bounds)
                        THEN k + 1 ELSE prev.start]

\* the ordinal units handled in the current accumulation
OrdinalsInAccumulation ==
    Cardinality({i \in AfterUnits(idx - 1).start..(idx - 1) : parts[i].ordinal})

\* C12: within one accumulation (the units consumed since the last ordinal
\* bound, or since the start) the kind is ordinal once an ordinal unit has been
\* consumed, the first ordinal unit of the accumulation sets it to ORDINAL and
\* every further ordinal unit sets it to ORDINAL_IMPROPER.
C12_KindMonotonic ==
    [][/\ OrdinalsInAccumulation > 0 => KindOrdinal(kind)
       /\ (/\ pc = "ordinal"
           /\ parts[idx].ordinal
           /\ ~AtOrdinalBound(acc, parts[idx], params.ordinal_bounds)) =>
              kind' = IF OrdinalsInAccumulation = 0 THEN ORDINAL ELSE ORDINAL_IMPROPER
      ]_vars

\* the same with ordinal_bounds disabled, where the whole unit sequence is one
\* accumulation
C12_NoBounds ==
    [][~params.ordinal_bounds =>
        /\ OrdinalsInAccumulation > 0 => KindOrdinal(kind)
        /\ (pc = "ordinal" /\ parts[idx].ordinal) =>
              kind' = IF OrdinalsInAccumulation = 0 THEN ORDINAL ELSE ORDINAL_IMPROPER
      ]_vars

----------------------------------------------------------------------------
(* Properties of span detection and decimalize (SpecText)                  *)

\* the whitespace-delimited tokens of s, as (start, end) offsets, end exclusive
TokenBounds(s) ==
    {b \in (0..Len(s)) \X (1..Len(s)) :
        /\ b[1] < b[2]
        /\ \A i \in (b[1] + 1)..b[2] : ~isspace(CharAt(s, i))
        /\ b[1] = 0 \/ isspace(CharAt(s, b[1]))
        /\ b[2] = Len(s) \/ isspace(CharAt(s, b[2] + 1))}

\* s is one or more digits followed by ST, ND, RD or TH in any letter case
DigitsWithSuffix(s) ==
    /\ Len(s) >= 3
    /\ \A i \in 1..(Len(s) - 2) : isdigit(CharAt(s, i))
    /\ upper(SubSeq(s, Len(s) - 1, Len(s))) \in {"ST", "ND", "RD", "TH"}

Scanned == tpc \in {"scanned", "decimalized", "detected", "redecimalized"}
Decimalized == tpc \in {"decimalized", "detected", "redecimalized"}

\* the tokens of the span sp of text
SpanWords(sp) == split(SubSeq(text, sp[1] + 1, sp[2]), 0)

\* C13: the spans of _iter_number_spans are non-overlapping and strictly
\* increasing in start position, and no span starts or ends on an AND token
\* (so a text of AND tokens only has no span), for either take_and setting.
C13_SpanBounds ==
    Scanned =>
        /\ \A j \in 1..(Len(numSpans) - 1) :
              /\ numSpans[j][2] <= numSpans[j + 1][1]
              /\ numSpans[j][1] < numSpans[j + 1][1]
        /\ \A j \in 1..Len(numSpans) :
              LET ws == SpanWords(numSpans[j])
              IN  /\ Len(ws) > 0
                  /\ upper(ws[1]) # "AND"
                  /\ upper(ws[Len(ws)]) # "AND"

\* C14: every decimal-ordinal token of the text (digits followed by ST, ND, RD
\* or TH in any case) is classified as numeric by the span detector, so it lies
\* inside one of the detected spans.
C14_DecimalOrdinalInSpan ==
    Scanned =>
        \A b \in TokenBounds(text) :
            DigitsWithSuffix(SubSeq(text, b[1] + 1, b[2])) =>
                \E j \in 1..Len(numSpans) : numSpans[j][1] <= b[1] /\ b[2] <= numSpans[j][2]

\* the results of parsing the span text w under dparams
SpanResults(w) ==
    LET units == _collect_number_parts(w, dparams.take_and, dparams.take_digits)
    IN  IF units = NoParts THEN <<>>
        ELSE _parse_number_parts(units, dparams.strict_periods, dparams.strict_hundreds,
                                 dparams.ordinal_bounds)

Accepted(w) == {i \in 1..Len(SpanResults(w)) : take_kind(dparams, SpanResults(w)[i].kind)}

\* the decimal form of a result
Converted(r) ==
    IF KindCardinal(r.kind) THEN str(r.n) ELSE str(r.n) \o _ordinal_suffix(r.n)

\* the text that stands for the span text w: its own text when there is no
\* result or every result is rejected, the converted results when all are accepted
Replacement(w) ==
    IF Accepted(w) = {} THEN w
    ELSE join(" ", [i \in 1..Len(SpanResults(w)) |-> Converted(SpanResults(w)[i])])

\* the text from offset i on with every span from number j on replaced
RECURSIVE ReplacedFrom(_, _)
ReplacedFrom(j, i) ==
    IF j > Len(numSpans) THEN SubSeq(text, i + 1, Len(text))
    ELSE SubSeq(text, i + 1, numSpans[j][1])
         \o Replacement(SubSeq(text, numSpans[j][1] + 1, numSpans[j][2]))
         \o ReplacedFrom(j + 1, numSpans[j][2])

\* every span has all of its results accepted, or none
Unmixed ==
    \A j \in 1..Len(numSpans) :
        LET w == SubSeq(text, numSpans[j][1] + 1, numSpans[j][2])
        IN  Accepted(w) \in {{}, 1..Len(SpanResults(w))}

\* C15: decimalize replaces every span by its converted results when their
\* kinds are accepted, and by the span's own text, exactly once, when the parse
\* gives no result or the results are rejected. Stated on the text before the
\* suffix pass (correct_suffixes off) and for spans whose results are all
\* accepted or all rejected.
C15_SpanReplaced ==
    (Decimalized /\ ~dparams.correct_suffixes /\ Unmixed) => out = ReplacedFrom(1, 0)

\* C16: with the default parameters decimalize copies the characters outside
\* the spans unchanged and in order: the output is the input with each span
\* replaced by what the converter yields for it and nothing else changed.
C16_FrameUnchanged ==
    (Decimalized /\ dparams = DefaultParams) =>
        out = DecimalizeFrom(text, numSpans, 1, 0, dparams)

\* C20: contains_decimal_ordinal(text) with strict = False is true exactly when
\* some whitespace-delimited token of text is, in its entirety, digits followed
\* by ST, ND, RD or TH in any letter case.
C20_ContainsDecimalOrdinal ==
    tpc = "detected" =>
        contains[FALSE] =
            (\E b \in TokenBounds(text) : DigitsWithSuffix(SubSeq(text, b[1] + 1, b[2])))

\* a decimal ordinal that is not the first token of the text has been detected
C20_Witness ==
    /\ tpc = "detected"
    /\ contains[FALSE]
    /\ Len(split(text, 0)) = 3
    /\ split(text, 0)[1] = "7"
    /\ split(text, 0)[2] = "3rd"

----------------------------------------------------------------------------
(* Properties of the decimal-ordinal functions (SpecToken)                 *)

TokenDigits == SubSeq(token, 1, Len(token) - 2)
TokenSuffix == SubSeq(token, Len(token) - 1, Len(token))

\* the suffix the digit-ordinal rule gives for the integer of the token
RuleSuffix == _ordinal_suffix(int(TokenDigits))

\* C17: is_decimal_ordinal(s, strict) is true for strict = False iff s is digits
\* followed by ST, ND, RD or TH in any letter case, and for strict = True iff in
\* addition the suffix, compared case-insensitively, is the suffix of the
\* digit-ordinal rule for that integer.
C17_IsDecimalOrdinal ==
    kpc # "start" =>
        /\ isDecOrd[FALSE] = DigitsWithSuffix(token)
        /\ isDecOrd[TRUE] = (DigitsWithSuffix(token) /\ upper(TokenSuffix) = RuleSuffix)

C19_SuffixRepair ==
    kpc = "repaired" =>
        LET want == IF DigitsWithSuffix(token)
                    THEN TokenDigits \o (IF isupper(TokenSuffix) THEN RuleSuffix
                                         ELSE lower(RuleSuffix))
                    ELSE token
        IN  /\ fixed = want
            /\ repaired[FALSE] = want

----------------------------------------------------------------------------
(* Further properties of decimalize (SpecText)                             *)

\* C21: decimalize is idempotent under the default parameters: for every
\* input text, decimalize(decimalize(text)) = decimalize(text).
C21_Idempotent ==
    (tpc = "redecimalized" /\ dparams = DefaultParams) => again = out

\* a text with two number spans was rewritten by the first pass and left alone
\* by the second
C21_Witness ==
    /\ tpc = "redecimalized"
    /\ dparams = DefaultParams
    /\ Len(numSpans) = 2
    /\ out # text
    /\ again = out

\* w is a simple cardinal number word (neither a period nor a hundred)
SimpleCardinal(w) ==
    /\ _is_number(w)
    /\ ~_lookup_number(w, TRUE).period
    /\ ~_lookup_number(w, TRUE).ordinal
    /\ _lookup_number(w, TRUE).n # 100

\* C22: with take_and enabled an AND standing between two simple numbers is not
\* consumed as a joiner: the two numbers are not added into one magnitude, so
\* the text "a AND b" is not decimalized to the decimal string of a + b.
C22_AndJoinsGroupsOnly ==
    (Decimalized /\ dparams.take_and) =>
        LET ws == split(text, 0)
        IN  (/\ Len(ws) = 3
             /\ SimpleCardinal(ws[1])
             /\ upper(ws[2]) = "AND"
             /\ SimpleCardinal(ws[3])) =>
                out # str(BigFromInt(_lookup_number(ws[1], TRUE).n
                                     + _lookup_number(ws[3], TRUE).n))

----------------------------------------------------------------------------
(* Properties of Number (SpecNumber)                                       *)

\* C23: a magnitude cannot be constructed with a negative integer: Number(n,
\* ...) and _Number(n, ...) with n < 0 fail with an error, so every Number and
\* every _Number that exists has n >= 0.
C23_NoNegativeMagnitude ==
    npc # "start" =>
        /\ numArgs.n < 0 => (numSelf.raised # "" /\ numUnit.raised # "")
        /\ numSelf.raised = "" => numSelf.value.n >= 0
        /\ numUnit.raised = "" => numUnit.value.n >= 0

\* C26: for a non-period Number a and a plain int k, a + k and k + a are
\* Numbers of value a.n + k with a's ordinal and word flags; for two non-period
\* Numbers a and b, a + b has value a.n + b.n and is ordinal iff a or b is;
\* when either operand is a period Number the addition raises ValueError.
C26_NumberAddition ==
    npc = "done" =>
        LET a == numSelf.value
            b == numOther
        IN  IF a.period \/ (b.isNumber /\ b.period)
            THEN numSum.raised = ValueError /\ numRSum.raised = ValueError
            ELSE IF ~b.isNumber
            THEN /\ numSum = Returned(Number(a.n + b.n, a.ordinal, a.word, FALSE))
                 /\ numRSum = Returned(Number(a.n + b.n, a.ordinal, a.word, FALSE))
            ELSE /\ numSum.raised = ""
                 /\ numSum.value.n = a.n + b.n
                 /\ numSum.value.ordinal = (a.ordinal \/ b.ordinal)

----------------------------------------------------------------------------
(* Properties of the lookup construction (SpecLookup)                      *)

\* the words an entry gives as keys
EntryWords(p) == {p.t} \cup p.aliases

\* a word or a unit value is given twice within the params ps
DuplicateWithin(ps) ==
    \/ \E j \in 1..Len(ps) : ps[j].t \in ps[j].aliases
    \/ \E j, k \in 1..Len(ps) :
          /\ j < k
          /\ ps[j].n = ps[k].n \/ EntryWords(ps[j]) \cap EntryWords(ps[k]) # {}

\* a word is given in both partitions
DuplicateAcross ==
    \E j \in 1..Len(lparams[1]), k \in 1..Len(lparams[2]) :
        EntryWords(lparams[1][j]) \cap EntryWords(lparams[2][k]) # {}

\* C24: lookup table construction fails when the same word is a key in two
\* partitions, or the same word or unit value is given twice: a duplicate is
\* never accepted silently with the later entry overwriting the earlier one.
C24_DuplicateKeysFatal ==
    /\ lpc \in {"made", "reversed"} =>
          ((DuplicateAcross \/ DuplicateWithin(lparams[1]) \/ DuplicateWithin(lparams[2]))
              => lraised)
    /\ lpc = "reversed" =>
          ((\E j, k \in DOMAIN lmapping : j < k /\ lmapping[j] = lmapping[k]) => lraised)

----------------------------------------------------------------------------
(* Properties of concurrent conversions (SpecConc)                         *)

\* the results the call c produces when it runs alone
Alone(c) ==
    LET units == _collect_number_parts(join(" ", cwords[c]),
                                       DefaultParams.take_and, DefaultParams.take_digits)
    IN  IF units = NoParts THEN <<>>
        ELSE _parse_number_parts(units, DefaultParams.strict_periods,
                                 DefaultParams.strict_hundreds, DefaultParams.ordinal_bounds)

\* the components of the state that belong to the call c
CallState(c) == <<cpc[c], cwords[c], cparts[c], cidx[c], ctotal[c], cstack[c],
                  ckind[c], cemitted[c]>>

\* C25: conversions whose steps are interleaved arbitrarily produce, for each
\* call, exactly the result that call produces when run alone; a step of one
\* call leaves the total, stack and kind of every other call as they are, and
\* the lookup tables are never written after construction.
C25_CallsIsolated ==
    /\ [](\A c \in Calls : cpc[c] = "done" => cemitted[c] = Alone(c))
    /\ [](tables = ModuleTables)
    /\ [][\E c \in Calls : \A d \in Calls \ {c} : CallState(d)' = CallState(d)]_vars

\* two calls are both in the middle of an accumulation, with different stacks
C25_Witness ==
    /\ cpc[1] = "ordinal"
    /\ cpc[2] = "ordinal"
    /\ cstack[1] = <<2>>
    /\ cstack[2] = <<1>>
    /\ ckind[2] = ORDINAL
    /\ Len(cparts[1]) = 2
    /\ Len(cparts[2]) = 2

----------------------------------------------------------------------------
(* Properties of the running kind (Spec)                                   *)

\* C27: improper is sticky: once the running kind of an accumulation is an
\* improper variant, a step that emits the result of that accumulation (at an
\* ordinal boundary or after the last unit) emits it with an improper kind,
\* and every other step leaves the running kind improper.
C27_ImproperSticky ==
    [][KindImproper(kind) =>
          IF Len(emitted') > Len(emitted)
          THEN KindImproper(emitted'[Len(emitted')].kind)
          ELSE KindImproper(kind')]_vars

\* the units of the number in progress when the call ends: those after the last
\* ordinal boundary
LastNumberUnits == AfterUnits(Len(parts)).start..Len(parts)

\* C28: with ordinal_bounds enabled the kind of an emitted result depends only
\* on that number's own units: a number made solely of cardinal units is
\* emitted with a cardinal kind, also when it follows an ordinal number in the
\* same span.
C28_KindFromOwnUnits ==
    (/\ pc = "done"
     /\ params.ordinal_bounds
     /\ LastNumberUnits # {}
     /\ \A i \in LastNumberUnits : ~parts[i].ordinal
     /\ total # None \/ Len(stack) > 0) =>
        KindCardinal(emitted[Len(emitted)].kind)

----------------------------------------------------------------------------
(* The two digit-ordinal recognizers (SpecToken)                           *)

\* C29: the two digit-ordinal recognizers agree: for every token and both
\* values of strict, is_digit_ordinal(token, strict) equals
\* is_decimal_ordinal(token, strict).
C29_RecognizersAgree ==
    kpc # "start" => \A strict \in BOOLEAN : isDigOrd[strict] = isDecOrd[strict]

====
